---------------------------- MODULE Spec2Model ----------------------------
(*************************************************************************)
(* The reactive-wrapper factory of packages/reactivity/src/reactive.ts:  *)
(* the four constructors (reactive, shallowReactive, readonly,           *)
(* shallowReadonly) over createReactiveObject, the four WeakMap          *)
(* registries, getTargetType, toRaw and markRaw.                         *)
(*                                                                       *)
(* A value is a record. A plain object is [t, id], an index into objs.   *)
(* A Proxy is [t, target, handlers, n]: the two internal slots           *)
(* `new Proxy(target, handlers)` fixes for its lifetime, and n, the      *)
(* number of Proxies over the same target and handlers allocated before  *)
(* it, which makes every allocation a new identity. The non-object       *)
(* values are undefined, null, a falsy and a truthy primitive and a      *)
(* function.                                                             *)
(*************************************************************************)
EXTENDS Integers, Sequences, FiniteSets, TLC

\* ----------------------------------------------------------------- bounds
NObj == 1          \* plain objects the callers hold
MaxProxies == 4    \* `new Proxy` allocations explored

\* ----------------------------------------------------------------- values
Undefined == [t |-> "undefined", id |-> 0]
Null == [t |-> "null", id |-> 0]
Zero == [t |-> "zero", id |-> 0]     \* a falsy primitive: 0, "", false, NaN
Num == [t |-> "number", id |-> 0]    \* a truthy primitive
Func == [t |-> "function", id |-> 0]
Obj(i) == [t |-> "obj", id |-> i]

ObjIds == 1..NObj

\* enum TargetType
INVALID == 0
COMMON == 1
COLLECTION == 2

\* the eight handler objects: what the wrapper built with them answers to the
\* flag keys, and which kind of target they intercept
mutableHandlers == [readonly |-> FALSE, shallow |-> FALSE, collection |-> FALSE]
shallowReactiveHandlers == [readonly |-> FALSE, shallow |-> TRUE, collection |-> FALSE]
readonlyHandlers == [readonly |-> TRUE, shallow |-> FALSE, collection |-> FALSE]
shallowReadonlyHandlers == [readonly |-> TRUE, shallow |-> TRUE, collection |-> FALSE]
mutableCollectionHandlers == [readonly |-> FALSE, shallow |-> FALSE, collection |-> TRUE]
shallowCollectionHandlers == [readonly |-> FALSE, shallow |-> TRUE, collection |-> TRUE]
readonlyCollectionHandlers == [readonly |-> TRUE, shallow |-> FALSE, collection |-> TRUE]
shallowReadonlyCollectionHandlers == [readonly |-> TRUE, shallow |-> TRUE, collection |-> TRUE]

VARIABLES
  objs,               \* objs[i]: rawType, extensible, ownSkip, protoSkip of plain object i
  proxies,            \* the Proxies allocated so far
  reactiveMap,        \* the four WeakMaps: a function from its keys to Proxies
  shallowReactiveMap,
  readonlyMap,
  shallowReadonlyMap,
  calls,              \* calls[c]: the createReactiveObject call caller c is in, step by step
  raced               \* the <<target, mode>> whose lookups overlapped a call on the same pair

vars == <<objs, proxies, reactiveMap, shallowReactiveMap, readonlyMap, shallowReadonlyMap,
          calls, raced>>

\* the module's state as one record: what a call reads and what it leaves
State ==
  [objs |-> objs, proxies |-> proxies, reactiveMap |-> reactiveMap,
   shallowReactiveMap |-> shallowReactiveMap, readonlyMap |-> readonlyMap,
   shallowReadonlyMap |-> shallowReadonlyMap]

\* ------------------------------------------------------------ WeakMap, Proxy
EmptyMap == [k \in {} |-> Undefined]
MapGet(map, key) == IF key \in DOMAIN map THEN map[key] ELSE Undefined
MapSet(map, key, value) == [k \in (DOMAIN map) \cup {key} |-> IF k = key THEN value ELSE map[k]]

NewProxy(ps, target, handlers) ==
  [t |-> "proxy", target |-> target, handlers |-> handlers,
   n |-> Cardinality({p \in ps : p.target = target /\ p.handlers = handlers})]

\* ------------------------------------------------------------ @vue/shared
isObject(val) == val.t \in {"obj", "proxy"}

\* the plain object that an operation no handler traps ends up on
RECURSIVE Backing(_)
Backing(value) == IF value.t = "proxy" THEN Backing(value.target) ELSE value

toRawType(os, value) == os[Backing(value).id].rawType
hasOwn(os, value) == os[Backing(value).id].ownSkip # "absent"
isExtensible(os, value) == os[Backing(value).id].extensible
def(os, value) == [os EXCEPT ![Backing(value).id].ownSkip = "true"]

\* ------------------------------------------------------------ flag reads
\* value[ReactiveFlags.RAW]
GetRaw(value) == IF value.t = "proxy" THEN value.target ELSE Undefined
\* !!value[ReactiveFlags.IS_REACTIVE]
GetIsReactive(value) == value.t = "proxy" /\ ~value.handlers.readonly
\* !!value[ReactiveFlags.IS_READONLY]
GetIsReadonly(value) == value.t = "proxy" /\ value.handlers.readonly
\* !!value[ReactiveFlags.IS_SHALLOW]
GetIsShallow(value) == value.t = "proxy" /\ value.handlers.shallow
\* !!value[ReactiveFlags.SKIP]: an ordinary property read, the own value
\* first, then the prototype chain
GetSkip(os, value) ==
  LET o == os[Backing(value).id]
  IN  IF o.ownSkip # "absent" THEN o.ownSkip = "true" ELSE o.protoSkip

\* ------------------------------------------------------------ reactive.ts
targetTypeMap(rawType) ==
  CASE rawType \in {"Object", "Array"} -> COMMON
    [] rawType \in {"Map", "Set", "WeakMap", "WeakSet"} -> COLLECTION
    [] OTHER -> INVALID

\* getTargetType without its Object.isExtensible test
getTargetType_IgnoreExtensible(os, value) ==
  IF GetSkip(os, value)
  THEN INVALID
  ELSE targetTypeMap(toRawType(os, value))

getTargetType(os, value) ==
  IF GetSkip(os, value) \/ ~isExtensible(os, value)
  THEN INVALID
  ELSE targetTypeMap(toRawType(os, value))

isReadonly(value) == GetIsReadonly(value)
isShallow(value) == GetIsShallow(value)
isProxy(value) == GetRaw(value) # Undefined

\* isReactive answering from the value's own flag, without following raw
isReactive_NoDelegate(value) == GetIsReactive(value)

RECURSIVE isReactive(_)
isReactive(value) ==
  IF isReadonly(value)
  THEN isReactive(GetRaw(value))
  ELSE GetIsReactive(value)

\* ToBoolean(value), the test of `value && ...` and `value ? ... : ...`
Truthy(value) == value.t \notin {"undefined", "null", "zero"}

\* value[key] raises a TypeError when value is undefined or null
ReadThrows(value) == value.t \in {"undefined", "null"}

\* the four predicates as calls: the boolean returned, whether the call
\* raised, and the state it leaves
isReadonlyCall(st, value) ==
  [ret |-> Truthy(value) /\ GetIsReadonly(value),
   threw |-> Truthy(value) /\ ReadThrows(value),
   st |-> st]

isShallowCall(st, value) ==
  [ret |-> Truthy(value) /\ GetIsShallow(value),
   threw |-> Truthy(value) /\ ReadThrows(value),
   st |-> st]

\* isProxy reading value[RAW] without testing value first
isProxyCall_NoGuard(st, value) ==
  [ret |-> GetRaw(value) # Undefined, threw |-> ReadThrows(value), st |-> st]

isProxyCall(st, value) ==
  IF Truthy(value)
  THEN [ret |-> GetRaw(value) # Undefined, threw |-> ReadThrows(value), st |-> st]
  ELSE [ret |-> FALSE, threw |-> FALSE, st |-> st]

RECURSIVE isReactiveCall(_, _)
isReactiveCall(st, value) ==
  LET ro == isReadonlyCall(st, value)
  IN  IF ro.threw THEN ro
      ELSE IF ro.ret THEN isReactiveCall(ro.st, GetRaw(value))
      ELSE [ret |-> Truthy(value) /\ GetIsReactive(value),
            threw |-> Truthy(value) /\ ReadThrows(value),
            st |-> ro.st]

\* toRaw unwrapping one layer only
toRaw_OneLayer(observed) ==
  LET raw == GetRaw(observed)
  IN  IF raw # Undefined THEN raw ELSE observed

RECURSIVE toRaw(_)
toRaw(observed) ==
  LET raw == GetRaw(observed)
  IN  IF raw # Undefined THEN toRaw(raw) ELSE observed

\* the recursive calls toRaw(observed) makes before it returns
RECURSIVE toRawDepth(_)
toRawDepth(observed) ==
  LET raw == GetRaw(observed)
  IN  IF raw # Undefined THEN 1 + toRawDepth(raw) ELSE 0

\* toRaw as a call: `observed && observed[RAW]` reads the key only of a
\* truthy value
toRawCall(st, observed) ==
  [ret |-> toRaw(observed),
   threw |-> Truthy(observed) /\ ReadThrows(observed),
   st |-> st]

\* createReactiveObject without its registry lookup
createReactiveObject_NoLookup(st, target, isReadonlyArg, baseHandlers, collectionHandlers, proxyMap) ==
  IF ~isObject(target) THEN [ret |-> target, st |-> st]
  ELSE IF GetRaw(target) # Undefined /\ ~(isReadonlyArg /\ GetIsReactive(target))
  THEN [ret |-> target, st |-> st]
  ELSE LET targetType == getTargetType(st.objs, target)
       IN  IF targetType = INVALID THEN [ret |-> target, st |-> st]
           ELSE LET proxy == NewProxy(st.proxies, target,
                                      IF targetType = COLLECTION
                                      THEN collectionHandlers
                                      ELSE baseHandlers)
                IN  [ret |-> proxy,
                     st |-> [st EXCEPT !.proxies = @ \cup {proxy},
                                       ![proxyMap] = MapSet(@, target, proxy)]]

\* createReactiveObject without its test for a target that is a Proxy already
createReactiveObject_NoProxyTest(st, target, isReadonlyArg, baseHandlers, collectionHandlers, proxyMap) ==
  IF ~isObject(target) THEN [ret |-> target, st |-> st]
  ELSE LET existingProxy == MapGet(st[proxyMap], target)
       IN  IF existingProxy # Undefined THEN [ret |-> existingProxy, st |-> st]
           ELSE LET targetType == getTargetType(st.objs, target)
                IN  IF targetType = INVALID THEN [ret |-> target, st |-> st]
                    ELSE LET proxy == NewProxy(st.proxies, target,
                                               IF targetType = COLLECTION
                                               THEN collectionHandlers
                                               ELSE baseHandlers)
                         IN  [ret |-> proxy,
                              st |-> [st EXCEPT !.proxies = @ \cup {proxy},
                                                ![proxyMap] = MapSet(@, target, proxy)]]

\* createReactiveObject classifying the target before it looks the registry up
createReactiveObject_ClassifyFirst(st, target, isReadonlyArg, baseHandlers, collectionHandlers, proxyMap) ==
  IF ~isObject(target) THEN [ret |-> target, st |-> st]
  ELSE IF GetRaw(target) # Undefined /\ ~(isReadonlyArg /\ GetIsReactive(target))
  THEN [ret |-> target, st |-> st]
  ELSE LET targetType == getTargetType(st.objs, target)
           existingProxy == MapGet(st[proxyMap], target)
       IN  IF targetType = INVALID THEN [ret |-> target, st |-> st]
           ELSE IF existingProxy # Undefined THEN [ret |-> existingProxy, st |-> st]
           ELSE LET proxy == NewProxy(st.proxies, target,
                                      IF targetType = COLLECTION
                                      THEN collectionHandlers
                                      ELSE baseHandlers)
                IN  [ret |-> proxy,
                     st |-> [st EXCEPT !.proxies = @ \cup {proxy},
                                       ![proxyMap] = MapSet(@, target, proxy)]]

\* createReactiveObject without the test of the Proxy's is-reactive flag: a
\* readonly call on any Proxy goes on to the registry
createReactiveObject_NoReactiveTest(st, target, isReadonlyArg, baseHandlers, collectionHandlers, proxyMap) ==
  IF ~isObject(target) THEN [ret |-> target, st |-> st]
  ELSE IF GetRaw(target) # Undefined /\ ~isReadonlyArg
  THEN [ret |-> target, st |-> st]
  ELSE LET existingProxy == MapGet(st[proxyMap], target)
       IN  IF existingProxy # Undefined THEN [ret |-> existingProxy, st |-> st]
           ELSE LET targetType == getTargetType(st.objs, target)
                IN  IF targetType = INVALID THEN [ret |-> target, st |-> st]
                    ELSE LET proxy == NewProxy(st.proxies, target,
                                               IF targetType = COLLECTION
                                               THEN collectionHandlers
                                               ELSE baseHandlers)
                         IN  [ret |-> proxy,
                              st |-> [st EXCEPT !.proxies = @ \cup {proxy},
                                                ![proxyMap] = MapSet(@, target, proxy)]]

\* A call is [ret, st]: the value returned and the state left, from the state
\* st it runs in. proxyMap names the WeakMap the caller passes.
createReactiveObject(st, target, isReadonlyArg, baseHandlers, collectionHandlers, proxyMap) ==
  IF ~isObject(target) THEN [ret |-> target, st |-> st]
  ELSE IF GetRaw(target) # Undefined /\ ~(isReadonlyArg /\ GetIsReactive(target))
  THEN [ret |-> target, st |-> st]
  ELSE LET existingProxy == MapGet(st[proxyMap], target)
       IN  IF existingProxy # Undefined THEN [ret |-> existingProxy, st |-> st]
           ELSE LET targetType == getTargetType(st.objs, target)
                IN  IF targetType = INVALID THEN [ret |-> target, st |-> st]
                    ELSE LET proxy == NewProxy(st.proxies, target,
                                               IF targetType = COLLECTION
                                               THEN collectionHandlers
                                               ELSE baseHandlers)
                         IN  [ret |-> proxy,
                              st |-> [st EXCEPT !.proxies = @ \cup {proxy},
                                                ![proxyMap] = MapSet(@, target, proxy)]]

reactiveCall(st, target) ==
  IF isReadonly(target)
  THEN [ret |-> target, st |-> st]
  ELSE createReactiveObject(st, target, FALSE, mutableHandlers,
                            mutableCollectionHandlers, "reactiveMap")

\* shallowReactive passing reactive's WeakMap
shallowReactiveCall_SharedMap(st, target) ==
  createReactiveObject(st, target, FALSE, shallowReactiveHandlers,
                       shallowCollectionHandlers, "reactiveMap")

shallowReactiveCall(st, target) ==
  createReactiveObject(st, target, FALSE, shallowReactiveHandlers,
                       shallowCollectionHandlers, "shallowReactiveMap")

\* readonly unwrapping its target before it wraps it
readonlyCall_OverRaw(st, target) ==
  createReactiveObject(st, toRaw(target), TRUE, readonlyHandlers,
                       readonlyCollectionHandlers, "readonlyMap")

readonlyCall(st, target) ==
  createReactiveObject(st, target, TRUE, readonlyHandlers,
                       readonlyCollectionHandlers, "readonlyMap")

shallowReadonlyCall(st, target) ==
  createReactiveObject(st, target, TRUE, shallowReadonlyHandlers,
                       shallowReadonlyCollectionHandlers, "shallowReadonlyMap")

\* markRaw without its hasOwn test
markRawCall_NoOwnTest(st, value) ==
  IF isExtensible(st.objs, value)
  THEN [ret |-> value, st |-> [st EXCEPT !.objs = def(@, value)]]
  ELSE [ret |-> value, st |-> st]

markRawCall(st, value) ==
  IF ~hasOwn(st.objs, value) /\ isExtensible(st.objs, value)
  THEN [ret |-> value, st |-> [st EXCEPT !.objs = def(@, value)]]
  ELSE [ret |-> value, st |-> st]

\* toReactive going through readonly
toReactiveCall_Readonly(st, value) ==
  IF isObject(value) THEN readonlyCall(st, value) ELSE [ret |-> value, st |-> st]

toReactiveCall(st, value) ==
  IF isObject(value) THEN reactiveCall(st, value) ELSE [ret |-> value, st |-> st]

toReadonlyCall(st, value) ==
  IF isObject(value) THEN readonlyCall(st, value) ELSE [ret |-> value, st |-> st]

\* ------------------------------------------------------------ state machine
\* the callers of a preemptively scheduled host, and a caller in no call
Callers == {"first", "second"}
Idle == [pc |-> "idle", m |-> "none", target |-> Undefined, proxy |-> Undefined]

Originals == {Obj(i) : i \in ObjIds}
Values == {Null, Num, Func} \cup Originals \cup proxies
Objects == {v \in Values : isObject(v)}

\* the objects callers bring: a plain Object, a Map, a Date, an Object whose
\* prototype has a truthy __v_skip, an Object with an own falsy __v_skip
Profiles ==
  << [rawType |-> "Object", extensible |-> TRUE, ownSkip |-> "absent", protoSkip |-> FALSE],
     [rawType |-> "Map", extensible |-> TRUE, ownSkip |-> "absent", protoSkip |-> FALSE],
     [rawType |-> "Date", extensible |-> TRUE, ownSkip |-> "absent", protoSkip |-> FALSE],
     [rawType |-> "Object", extensible |-> TRUE, ownSkip |-> "absent", protoSkip |-> TRUE],
     [rawType |-> "Object", extensible |-> TRUE, ownSkip |-> "false", protoSkip |-> TRUE] >>

\* objects are interchangeable: they are listed in the order of their profiles
InitObjs ==
  { [i \in ObjIds |-> Profiles[f[i]]] :
      f \in { g \in [ObjIds -> 1..Len(Profiles)] :
                \A i, j \in ObjIds : i < j => g[i] <= g[j] } }

Init ==
  /\ objs \in InitObjs
  /\ proxies = {}
  /\ reactiveMap = EmptyMap
  /\ shallowReactiveMap = EmptyMap
  /\ readonlyMap = EmptyMap
  /\ shallowReadonlyMap = EmptyMap
  /\ calls = [c \in Callers |-> Idle]
  /\ raced = {}

\* the state after a call; allocations stop at MaxProxies
Becomes(st) ==
  /\ Cardinality(st.proxies) <= MaxProxies
  /\ objs' = st.objs
  /\ proxies' = st.proxies
  /\ reactiveMap' = st.reactiveMap
  /\ shallowReactiveMap' = st.shallowReactiveMap
  /\ readonlyMap' = st.readonlyMap
  /\ shallowReadonlyMap' = st.shallowReadonlyMap
  /\ UNCHANGED <<calls, raced>>

reactive(target) == Becomes(reactiveCall(State, target).st)
shallowReactive(target) == Becomes(shallowReactiveCall(State, target).st)
readonly(target) == Becomes(readonlyCall(State, target).st)
shallowReadonly(target) == Becomes(shallowReadonlyCall(State, target).st)
markRaw(value) == Becomes(markRawCall(State, value).st)
toReactive(value) == Becomes(toReactiveCall(State, value).st)
toReadonly(value) == Becomes(toReadonlyCall(State, value).st)

\* toRaw reads only
toRawStep(observed) ==
  /\ toRaw(observed) \in Values
  /\ UNCHANGED vars

\* a caller asks one of the four predicates about a value
isReactiveStep(value) == Becomes(isReactiveCall(State, value).st)
isReadonlyStep(value) == Becomes(isReadonlyCall(State, value).st)
isShallowStep(value) == Becomes(isShallowCall(State, value).st)
isProxyStep(value) == Becomes(isProxyCall(State, value).st)

\* the caller freezes or seals an object it holds (Object.preventExtensions)
preventExtensions(i) ==
  /\ objs[i].extensible
  /\ objs' = [objs EXCEPT ![i].extensible = FALSE]
  /\ UNCHANGED <<proxies, reactiveMap, shallowReactiveMap, readonlyMap, shallowReadonlyMap>>
  /\ UNCHANGED <<calls, raced>>

Next ==
  \/ \E target \in Values : reactive(target)
  \/ \E target \in Values : shallowReactive(target)
  \/ \E target \in Values : readonly(target)
  \/ \E target \in Values : shallowReadonly(target)
  \/ \E observed \in Values : toRawStep(observed)
  \/ \E value \in Values : isReactiveStep(value)
  \/ \E value \in Values : isReadonlyStep(value)
  \/ \E value \in Values : isShallowStep(value)
  \/ \E value \in Values : isProxyStep(value)
  \/ \E value \in Objects : markRaw(value)
  \/ \E value \in Values : toReactive(value)
  \/ \E value \in Values : toReadonly(value)
  \/ \E i \in ObjIds : preventExtensions(i)

Spec == Init /\ [][Next]_vars

\* ------------------------------------------------- the four constructors
Modes == {"reactive", "shallowReactive", "readonly", "shallowReadonly"}
ReadonlyModes == {"readonly", "shallowReadonly"}

\* the mode-m constructor called on target in state st
wrap(m, st, target) ==
  CASE m = "reactive" -> reactiveCall(st, target)
    [] m = "shallowReactive" -> shallowReactiveCall(st, target)
    [] m = "readonly" -> readonlyCall(st, target)
    [] m = "shallowReadonly" -> shallowReadonlyCall(st, target)

\* the registry of mode m in state st
registry(m, st) ==
  CASE m = "reactive" -> st.reactiveMap
    [] m = "shallowReactive" -> st.shallowReactiveMap
    [] m = "readonly" -> st.readonlyMap
    [] m = "shallowReadonly" -> st.shallowReadonlyMap

Eligible(st, value) == isObject(value) /\ getTargetType(st.objs, value) # INVALID
Cached(m, st, value) == MapGet(registry(m, st), value)

\* ------------------------------------------- a preemptively scheduled host
\* the arguments the mode-m constructor passes to createReactiveObject
ConstructorArgs(m) ==
  CASE m = "reactive" ->
         [isReadonly |-> FALSE, baseHandlers |-> mutableHandlers,
          collectionHandlers |-> mutableCollectionHandlers, proxyMap |-> "reactiveMap"]
    [] m = "shallowReactive" ->
         [isReadonly |-> FALSE, baseHandlers |-> shallowReactiveHandlers,
          collectionHandlers |-> shallowCollectionHandlers, proxyMap |-> "shallowReactiveMap"]
    [] m = "readonly" ->
         [isReadonly |-> TRUE, baseHandlers |-> readonlyHandlers,
          collectionHandlers |-> readonlyCollectionHandlers, proxyMap |-> "readonlyMap"]
    [] m = "shallowReadonly" ->
         [isReadonly |-> TRUE, baseHandlers |-> shallowReadonlyHandlers,
          collectionHandlers |-> shallowReadonlyCollectionHandlers,
          proxyMap |-> "shallowReadonlyMap"]

\* the registries after proxyMap.set(target, proxy) in the registry of mode m
Registered(m, target, proxy) ==
  /\ reactiveMap' = IF m = "reactive" THEN MapSet(reactiveMap, target, proxy) ELSE reactiveMap
  /\ shallowReactiveMap' =
       IF m = "shallowReactive" THEN MapSet(shallowReactiveMap, target, proxy)
       ELSE shallowReactiveMap
  /\ readonlyMap' = IF m = "readonly" THEN MapSet(readonlyMap, target, proxy) ELSE readonlyMap
  /\ shallowReadonlyMap' =
       IF m = "shallowReadonly" THEN MapSet(shallowReadonlyMap, target, proxy)
       ELSE shallowReadonlyMap

\* the head of createReactiveObject with its registry lookup left out
createReactiveObjectHead_NoLookup(st, target, isReadonlyArg, proxyMap) ==
  IF ~isObject(target) THEN [done |-> TRUE, ret |-> target]
  ELSE IF GetRaw(target) # Undefined /\ ~(isReadonlyArg /\ GetIsReactive(target))
  THEN [done |-> TRUE, ret |-> target]
  ELSE [done |-> FALSE, ret |-> Undefined]

\* the head of createReactiveObject, up to and with the registry lookup:
\* whether the call returns there, and what
createReactiveObjectHead(st, target, isReadonlyArg, proxyMap) ==
  IF ~isObject(target) THEN [done |-> TRUE, ret |-> target]
  ELSE IF GetRaw(target) # Undefined /\ ~(isReadonlyArg /\ GetIsReactive(target))
  THEN [done |-> TRUE, ret |-> target]
  ELSE LET existingProxy == MapGet(st[proxyMap], target)
       IN  IF existingProxy # Undefined
           THEN [done |-> TRUE, ret |-> existingProxy]
           ELSE [done |-> FALSE, ret |-> Undefined]

\* caller c enters the mode-m constructor on an original and runs it through
\* the lookup; a miss while another caller is between its lookup and its
\* registration for the same original and mode is an overlap
lookupStep(c, m, target) ==
  /\ calls[c].pc = "idle"
  /\ LET a == ConstructorArgs(m)
         head == createReactiveObjectHead(State, target, a.isReadonly, a.proxyMap)
         overlap == \E d \in Callers \ {c} :
                      /\ calls[d].pc \in {"lookedUp", "built"}
                      /\ calls[d].m = m
                      /\ calls[d].target = target
     IN  /\ calls' = [calls EXCEPT ![c] =
                        IF head.done
                        THEN [pc |-> "returned", m |-> m, target |-> target, proxy |-> head.ret]
                        ELSE [pc |-> "lookedUp", m |-> m, target |-> target, proxy |-> Undefined]]
         /\ raced' = IF ~head.done /\ overlap THEN raced \cup {<<target, m>>} ELSE raced
  /\ UNCHANGED <<objs, proxies, reactiveMap, shallowReactiveMap, readonlyMap, shallowReadonlyMap>>

\* caller c classifies its target and allocates the Proxy
buildStep(c) ==
  /\ calls[c].pc = "lookedUp"
  /\ LET a == ConstructorArgs(calls[c].m)
         target == calls[c].target
         targetType == getTargetType(objs, target)
         proxy == NewProxy(proxies, target,
                           IF targetType = COLLECTION
                           THEN a.collectionHandlers
                           ELSE a.baseHandlers)
     IN  IF targetType = INVALID
         THEN /\ calls' = [calls EXCEPT ![c].pc = "returned", ![c].proxy = target]
              /\ UNCHANGED proxies
         ELSE /\ proxies' = proxies \cup {proxy}
              /\ calls' = [calls EXCEPT ![c].pc = "built", ![c].proxy = proxy]
  /\ UNCHANGED <<objs, reactiveMap, shallowReactiveMap, readonlyMap, shallowReadonlyMap, raced>>

\* caller c registers its Proxy and returns it
registerStep(c) ==
  /\ calls[c].pc = "built"
  /\ Registered(calls[c].m, calls[c].target, calls[c].proxy)
  /\ calls' = [calls EXCEPT ![c].pc = "returned"]
  /\ UNCHANGED <<objs, proxies, raced>>

\* each caller makes one call and keeps what it returned
NextPreemptive ==
  \/ \E c \in Callers : \E m \in Modes : \E target \in Originals : lookupStep(c, m, target)
  \/ \E c \in Callers : buildStep(c)
  \/ \E c \in Callers : registerStep(c)

SpecPreemptive == Init /\ [][NextPreemptive]_vars

\* ------------------------------------------------------------ the claims
\* C1: the first mode-m call on an eligible original x builds a new wrapper
\* and registers it under x; from then on, whatever step is taken, the
\* registry entry stays and every mode-m call on x returns that wrapper.
C1_IdentityStable ==
  /\ [](\A m \in Modes : \A x \in Originals :
          LET before == Cached(m, State, x)
              call == wrap(m, State, x)
          IN  /\ (before = Undefined /\ Eligible(State, x)) =>
                   /\ isProxy(call.ret) /\ call.ret \notin proxies
                   /\ Cached(m, call.st, x) = call.ret
              /\ before # Undefined => call.ret = before)
  /\ [][UNCHANGED vars \/ \A m \in Modes : \A x \in Originals :
          LET before == Cached(m, State, x)
              after == MapGet(registry(m, State)', x)
          IN  /\ before # Undefined => after = before
              /\ (before = Undefined /\ after # Undefined) =>
                   after = wrap(m, State, x).ret]_vars

\* an original wrapped in two modes and then skip-flagged (through markRaw on
\* one of its wrappers), whose readonly constructor still returns its wrapper
C1_Witness ==
  \E x \in Originals :
    /\ Cached("reactive", State, x) # Undefined
    /\ Cached("readonly", State, x) # Undefined
    /\ objs[x.id].ownSkip = "true"
    /\ readonlyCall(State, x).ret = Cached("readonly", State, x)

\* C2: for an eligible original x and each mode m, the mode-m constructor
\* applied to the wrapper it returned for x returns that wrapper and leaves
\* the registries and the heap as the first call left them.
C2_Idempotent ==
  \A m \in Modes : \A x \in Originals :
    Eligible(State, x) =>
      LET first == wrap(m, State, x)
          second == wrap(m, first.st, first.ret)
      IN  /\ isProxy(first.ret)
          /\ second.ret = first.ret
          /\ second.st = first.st

\* every mode holds a wrapper of one eligible original
C2_Witness ==
  \E x \in Originals :
    /\ Eligible(State, x)
    /\ \A m \in Modes :
         /\ Cached(m, State, x) # Undefined
         /\ wrap(m, State, Cached(m, State, x)).ret = Cached(m, State, x)

\* C3 as claimed: once x carries the skip flag markRaw sets, every constructor
\* called on x returns x itself and isReactive(x) is false.
C3_AsClaimed ==
  \A m \in Modes : \A x \in Originals :
    objs[x.id].ownSkip = "true" =>
      /\ wrap(m, State, x).ret = x
      /\ ~isReactive(x)

\* C3: once x carries the skip flag markRaw sets, the flag stays, isReactive(x)
\* is false and no constructor builds a wrapper for x: a call leaves the state
\* as it is and returns x itself, or the wrapper the registry of its mode held
\* for x when the flag was set.
C3_SkipAfterMarkRaw ==
  /\ [](\A m \in Modes : \A x \in Originals :
          objs[x.id].ownSkip = "true" =>
            /\ ~isReactive(x)
            /\ wrap(m, State, x) =
                 [ret |-> IF Cached(m, State, x) # Undefined
                          THEN Cached(m, State, x) ELSE x,
                  st |-> State])
  /\ [][UNCHANGED vars \/ \A x \in Originals :
          objs[x.id].ownSkip = "true" =>
            /\ objs'[x.id].ownSkip = "true"
            /\ \A m \in Modes :
                 MapGet(registry(m, State)', x) = Cached(m, State, x)]_vars

\* a skip-flagged original with a wrapper in one registry and none in another
C3_Witness ==
  \E x \in Originals :
    /\ objs[x.id].ownSkip = "true"
    /\ Cached("reactive", State, x) # Undefined
    /\ reactiveCall(State, x).ret = Cached("reactive", State, x)
    /\ Cached("readonly", State, x) = Undefined
    /\ readonlyCall(State, x).ret = x

\* C4 as claimed: the wrapper readonly returned for reactive(x) is distinct
\* from reactive(x), wraps x directly and is the readonly registry's entry
\* for x.
C4_AsClaimed ==
  \A x \in Originals :
    LET p == Cached("reactive", State, x)
        q == Cached("readonly", State, p)
    IN  (p # Undefined /\ q # Undefined) =>
          /\ q # p
          /\ GetRaw(q) = x
          /\ Cached("readonly", State, x) = q

\* C4: for an eligible original x, readonly(reactive(x)) is a readonly wrapper
\* distinct from reactive(x) that is built over the wrapper reactive(x): its
\* directly wrapped value is reactive(x), toRaw of it is x, the readonly
\* registry holds it under the key reactive(x), and the readonly registry's
\* entry for x (the wrapper readonly(x), a different one) is left as it was.
C4_ReadonlyOverReactive ==
  \A x \in Originals :
    Eligible(State, x) =>
      LET first == reactiveCall(State, x)
          p == first.ret
          second == readonlyCall(first.st, p)
          q == second.ret
      IN  /\ isProxy(p) /\ isProxy(q) /\ isReadonly(q)
          /\ q # p
          /\ GetRaw(q) = p
          /\ toRaw(q) = x
          /\ Cached("readonly", second.st, p) = q
          /\ Cached("readonly", second.st, x) = Cached("readonly", State, x)
          /\ Cached("readonly", second.st, x) # q
          /\ readonlyCall(second.st, x).ret # q

\* reactive(x), readonly(x) and readonly(reactive(x)) all exist
C4_Witness ==
  \E x \in Originals :
    LET p == Cached("reactive", State, x)
    IN  /\ p # Undefined
        /\ Cached("readonly", State, x) # Undefined
        /\ Cached("readonly", State, p) # Undefined
        /\ GetRaw(Cached("readonly", State, p)) = p

\* C5: for every value v and mode m, toRaw of the mode-m constructor's result
\* on v is toRaw(v); toRaw(x) is x for a plain x, toRaw(reactive(x)) and
\* toRaw(readonly(reactive(x))) are x for an eligible x.
C5_ToRaw ==
  /\ \A v \in Values : \A m \in Modes :
       toRaw(wrap(m, State, v).ret) = toRaw(v)
  /\ \A v \in Values : ~isProxy(v) => toRaw(v) = v
  /\ \A x \in Originals :
       Eligible(State, x) =>
         LET first == reactiveCall(State, x)
         IN  /\ toRaw(first.ret) = x
             /\ toRaw(readonlyCall(first.st, first.ret).ret) = x

\* a two-layer wrapper exists and unwraps to a plain object
C5_Witness ==
  \E q \in proxies :
    /\ isProxy(GetRaw(q))
    /\ toRaw(q) \in Originals
    /\ toRaw(shallowReadonlyCall(State, GetRaw(q)).ret) = toRaw(q)

\* C6: for an eligible original x the four constructors, called one after
\* the other, return four pairwise distinct wrappers, and in the state they
\* leave each constructor returns its own wrapper again and changes nothing.
C6_ModeIndependent ==
  \A x \in Originals :
    Eligible(State, x) =>
      LET c1 == reactiveCall(State, x)
          c2 == shallowReactiveCall(c1.st, x)
          c3 == readonlyCall(c2.st, x)
          c4 == shallowReadonlyCall(c3.st, x)
          rets == <<c1.ret, c2.ret, c3.ret, c4.ret>>
      IN  /\ \A i \in 1..4 : isProxy(rets[i]) /\ GetRaw(rets[i]) = x
          /\ \A i, j \in 1..4 : i # j => rets[i] # rets[j]
          /\ reactiveCall(c4.st, x) = [ret |-> c1.ret, st |-> c4.st]
          /\ shallowReactiveCall(c4.st, x) = [ret |-> c2.ret, st |-> c4.st]
          /\ readonlyCall(c4.st, x) = [ret |-> c3.ret, st |-> c4.st]
          /\ shallowReadonlyCall(c4.st, x) = [ret |-> c4.ret, st |-> c4.st]

\* the four registries hold four different wrappers of one original
C6_Witness ==
  \E x \in Originals :
    /\ \A m \in Modes : Cached(m, State, x) # Undefined
    /\ Cardinality({Cached(m, State, x) : m \in Modes}) = 4

\* C7: a constructor called on a wrapper w returns w and changes nothing,
\* unless the mode is readonly or shallowReadonly and w is a mutable wrapper.
C7_WrapperPassthrough ==
  \A w \in proxies : \A m \in Modes :
    ~(m \in ReadonlyModes /\ GetIsReactive(w)) =>
      wrap(m, State, w) = [ret |-> w, st |-> State]

\* a readonly wrapper and a mutable wrapper exist; reactive returns the
\* readonly one as it is
C7_Witness ==
  \E w, p \in proxies :
    /\ GetIsReadonly(w)
    /\ GetIsReactive(p)
    /\ reactiveCall(State, w).ret = w
    /\ shallowReadonlyCall(State, w).ret = w

\* C8: isReactive(v) is true exactly when v is a mutable wrapper or a
\* readonly wrapper whose directly wrapped value is a mutable wrapper;
\* readonly(reactive(x)) is reactive and readonly, readonly(x) is readonly
\* and not reactive.
C8_IsReactive ==
  /\ \A v \in Values :
       isReactive(v) <=>
         \/ GetIsReactive(v)
         \/ GetIsReadonly(v) /\ GetIsReactive(GetRaw(v))
  /\ \A x \in Originals :
       LET p == Cached("reactive", State, x)
           q == Cached("readonly", State, p)
           r == Cached("readonly", State, x)
       IN  /\ (p # Undefined /\ q # Undefined) => isReactive(q) /\ isReadonly(q)
           /\ r # Undefined => ~isReactive(r) /\ isReadonly(r)

\* readonly(reactive(x)) and readonly(x) both exist
C8_Witness ==
  \E x \in Originals :
    LET p == Cached("reactive", State, x)
    IN  /\ p # Undefined
        /\ Cached("readonly", State, p) # Undefined
        /\ isReactive(Cached("readonly", State, p))
        /\ Cached("readonly", State, x) # Undefined
        /\ ~isReactive(Cached("readonly", State, x))

\* a value no constructor wraps whatever its skip flag: not an object, of an
\* unrecognized kind, or not extensible
Ineligible(st, value) ==
  \/ ~isObject(value)
  \/ targetTypeMap(toRawType(st.objs, value)) = INVALID
  \/ ~isExtensible(st.objs, value)

\* C9 as claimed: a constructor called on such a value returns the value and
\* changes nothing.
C9_AsClaimed ==
  \A v \in Values : \A m \in Modes :
    Ineligible(State, v) => wrap(m, State, v) = [ret |-> v, st |-> State]

\* C9: a constructor called on such a value adds no entry to any registry and
\* builds nothing; it returns the value itself, or, for an object wrapped in
\* that mode before it was made non-extensible, the wrapper the mode's
\* registry holds for it.
C9_IneligiblePassthrough ==
  \A v \in Values : \A m \in Modes :
    Ineligible(State, v) =>
      LET call == wrap(m, State, v)
      IN  /\ call.st = State
          /\ call.ret = IF Cached(m, State, v) # Undefined
                        THEN Cached(m, State, v) ELSE v
          /\ (~isObject(v) \/ targetTypeMap(toRawType(objs, v)) = INVALID) =>
               call.ret = v

\* an object made non-extensible after reactive wrapped it and before readonly
\* was called on it
C9_Witness ==
  \E x \in Originals :
    /\ ~objs[x.id].extensible
    /\ Cached("reactive", State, x) # Undefined
    /\ Cached("readonly", State, x) = Undefined
    /\ readonlyCall(State, x) = [ret |-> x, st |-> State]

\* C10: markRaw(v) returns v and touches neither the registries nor the heap;
\* it changes v only when skip is not an own property of v and v is
\* extensible, and then by setting the skip flag; a second markRaw(v) changes
\* nothing; and no step of the module clears a skip flag that is set.
C10_MarkRaw ==
  /\ [](\A v \in Objects :
          LET call == markRawCall(State, v)
              set == ~hasOwn(objs, v) /\ isExtensible(objs, v)
          IN  /\ call.ret = v
              /\ call.st = [State EXCEPT !.objs = call.st.objs]
              /\ ~set => call.st = State
              /\ set => /\ call.st.objs = [objs EXCEPT ![Backing(v).id].ownSkip = "true"]
                        /\ GetSkip(call.st.objs, v)
              /\ markRawCall(call.st, v) = [ret |-> v, st |-> call.st])
  /\ [][UNCHANGED vars \/ \A i \in ObjIds :
          /\ objs[i].ownSkip # "absent" => objs'[i].ownSkip = objs[i].ownSkip
          /\ GetSkip(objs, Obj(i)) => GetSkip(objs', Obj(i))]_vars

\* markRaw has set the flag on one object and was a no-op on another value
C10_Witness ==
  \E x \in Originals :
    /\ objs[x.id].ownSkip = "true"
    /\ Cached("reactive", State, x) # Undefined
    /\ markRawCall(State, Cached("reactive", State, x)).st = State

\* C11: for every absent, null or primitive input the four predicates return
\* false, raise nothing and leave the state as it was; toRaw returns such an
\* input, and every unwrapped object, unchanged
Primitives == {Undefined, Null, Zero, Num}
Unwrapped == {Func} \cup Originals

C11_NonObjectInputs ==
  /\ \A v \in Primitives :
        /\ isReactiveCall(State, v) = [ret |-> FALSE, threw |-> FALSE, st |-> State]
        /\ isReadonlyCall(State, v) = [ret |-> FALSE, threw |-> FALSE, st |-> State]
        /\ isShallowCall(State, v) = [ret |-> FALSE, threw |-> FALSE, st |-> State]
        /\ isProxyCall(State, v) = [ret |-> FALSE, threw |-> FALSE, st |-> State]
  /\ \A v \in Primitives \cup Unwrapped :
        toRawCall(State, v) = [ret |-> v, threw |-> FALSE, st |-> State]

\* wrappers exist, the predicates tell them from the primitives
C11_Witness ==
  /\ \E p \in proxies : isProxyCall(State, p).ret /\ toRawCall(State, p).ret # p
  /\ \A v \in Primitives : ~isProxyCall(State, v).ret /\ ~isProxyCall(State, v).threw
  /\ \A v \in Unwrapped : toRawCall(State, v).ret = v

\* C12: on an object-like value toReactive returns what reactive returns and
\* leaves the state reactive leaves, and toReadonly does as readonly does; on
\* any other value both return it and leave the state as it was
C12_ToReactive ==
  \A v \in Values \cup Primitives :
    IF isObject(v)
    THEN /\ toReactiveCall(State, v) = wrap("reactive", State, v)
         /\ toReadonlyCall(State, v) = wrap("readonly", State, v)
    ELSE /\ toReactiveCall(State, v) = [ret |-> v, st |-> State]
         /\ toReadonlyCall(State, v) = [ret |-> v, st |-> State]

\* toReactive finds the wrapper a call has registered, toReadonly would still
\* register one
C12_Witness ==
  \E x \in Originals :
    /\ Cached("reactive", State, x) # Undefined
    /\ toReactiveCall(State, x) = [ret |-> Cached("reactive", State, x), st |-> State]
    /\ toReadonlyCall(State, x).st # State
    /\ toReadonlyCall(State, x).ret \notin proxies

\* C13: the registry lookup comes before classification: a mode-m constructor
\* called on a key of mode m's registry returns the registered wrapper and
\* changes nothing, also when the key now classifies as INVALID
C13_LookupBeforeClassify ==
  \A m \in Modes : \A t \in Values :
    Cached(m, State, t) # Undefined =>
      wrap(m, State, t) = [ret |-> Cached(m, State, t), st |-> State]

\* a registered original that was skip-flagged and made non-extensible after
\* its registration, and a registered wrapper
C13_Witness ==
  /\ \E m \in Modes : \E x \in Originals :
       /\ Cached(m, State, x) # Undefined
       /\ objs[x.id].ownSkip = "true"
       /\ ~isExtensible(objs, x)
       /\ getTargetType(objs, x) = INVALID
       /\ wrap(m, State, x).ret = Cached(m, State, x)
  /\ \E m \in Modes : \E p \in proxies :
       /\ Cached(m, State, p) # Undefined
       /\ wrap(m, State, p).ret = Cached(m, State, p)

\* C14: two wrappers allocated for one original in one mode exist only where
\* the lookups of two calls on that original and mode both ran before either
\* registered (with every call run from lookup to registration undisturbed
\* there are none); then, and only then, two callers of that constructor on
\* that original can hold different wrappers
Duplicates(target, m) ==
  {p \in proxies : p.target = target
                   /\ p.handlers \in {ConstructorArgs(m).baseHandlers,
                                      ConstructorArgs(m).collectionHandlers}}

C14_RaceOnlyWhenInterleaved ==
  \A target \in Originals : \A m \in Modes :
    <<target, m>> \notin raced =>
      /\ Cardinality(Duplicates(target, m)) <= 1
      /\ \A c, d \in Callers :
           (/\ calls[c].pc = "returned" /\ calls[c].m = m /\ calls[c].target = target
            /\ calls[d].pc = "returned" /\ calls[d].m = m /\ calls[d].target = target)
           => calls[c].proxy = calls[d].proxy

\* both lookups ran before either registration: two wrappers of one original
\* in one mode, one in each caller's hands
C14_Witness ==
  \E target \in Originals : \E m \in Modes :
    /\ <<target, m>> \in raced
    /\ Cardinality(Duplicates(target, m)) = 2
    /\ calls["first"].pc = "returned" /\ calls["second"].pc = "returned"
    /\ calls["first"].m = m /\ calls["second"].m = m
    /\ calls["first"].target = target /\ calls["second"].target = target
    /\ calls["first"].proxy \in proxies /\ calls["second"].proxy \in proxies
    /\ calls["first"].proxy # calls["second"].proxy

\* C15: on every value the callers can hold toRaw returns after at most two
\* recursive calls, and what it returns has no raw: isProxy of it is false
\* and toRaw of it is itself
C15_ToRawTerminates ==
  \A v \in Values \cup Primitives :
    /\ toRawDepth(v) <= 2
    /\ ~toRawCall(State, v).threw
    /\ ~isProxy(toRaw(v))
    /\ toRaw(toRaw(v)) = toRaw(v)

\* a readonly wrapper over a reactive wrapper over a skip-flagged original
C15_Witness ==
  \E p \in proxies :
    /\ toRawDepth(p) = 2
    /\ toRaw(p) \in Originals
    /\ objs[toRaw(p).id].ownSkip = "true"
    /\ ~isProxy(toRaw(p))

\* C16: a mode-m constructor call leaves the objects (skip flag,
\* extensibility, kind) and the registries of the other three modes as they
\* were; it leaves mode m's registry as it was unless it builds a wrapper,
\* and then it adds the one entry target -> new wrapper
C16_Frame ==
  \A m \in Modes : \A v \in Values \cup Primitives :
    LET call == wrap(m, State, v)
    IN  /\ call.st.objs = objs
        /\ \A other \in Modes \ {m} : registry(other, call.st) = registry(other, State)
        /\ IF call.st.proxies = proxies
           THEN registry(m, call.st) = registry(m, State)
           ELSE /\ call.ret \notin proxies
                /\ call.st.proxies = proxies \cup {call.ret}
                /\ v \notin DOMAIN registry(m, State)
                /\ DOMAIN registry(m, call.st) = DOMAIN registry(m, State) \cup {v}
                /\ \A k \in DOMAIN registry(m, State) :
                     registry(m, call.st)[k] = registry(m, State)[k]
                /\ registry(m, call.st)[v] = call.ret

\* one mode has registered a wrapper for an original and its next call on it
\* changes nothing; in another mode the next call on it builds one
C16_Witness ==
  \E x \in Originals : \E m, other \in Modes :
    /\ m # other
    /\ Cached(m, State, x) \in proxies
    /\ wrap(m, State, x).st = State
    /\ Cached(other, State, x) = Undefined
    /\ wrap(other, State, x).st.proxies # proxies
    /\ registry(m, State) # EmptyMap

\* C17: every registry maps a key only to a wrapper built directly over that
\* key by the registry's own constructor, and no step removes an entry or
\* gives a key another wrapper
C17_RegistryEntries ==
  /\ [](\A m \in Modes : \A k \in DOMAIN registry(m, State) :
          LET p == registry(m, State)[k]
          IN  /\ p \in proxies
              /\ p.target = k
              /\ p.handlers \in {ConstructorArgs(m).baseHandlers,
                                 ConstructorArgs(m).collectionHandlers})
  /\ [][UNCHANGED vars \/ \A m \in Modes : \A k \in DOMAIN registry(m, State) :
          /\ k \in DOMAIN registry(m, State)'
          /\ registry(m, State)'[k] = registry(m, State)[k]]_vars

\* all four registries hold an entry, one of them under a wrapper
C17_Witness ==
  /\ \A m \in Modes : registry(m, State) # EmptyMap
  /\ \E m \in Modes : \E k \in DOMAIN registry(m, State) :
       isProxy(k) /\ registry(m, State)[k].target = k

\* C18: what a wrapper directly wraps is an unwrapped original, or a
\* reactive or shallowReactive wrapper that directly wraps an unwrapped
\* original and is itself wrapped by a readonly or shallowReadonly wrapper:
\* nothing is built over a readonly wrapper, no mutable wrapper is built over
\* a wrapper, and no chain has more than two layers
C18_TwoLayers ==
  \A p \in proxies :
    /\ \/ p.target \in Originals
       \/ /\ p.target \in proxies
          /\ ~isReadonly(p.target)
          /\ p.target.target \in Originals
          /\ isReadonly(p)
    /\ ~isReadonly(p.target)
    /\ ~isReadonly(p) => ~isProxy(p.target)
    /\ toRawDepth(p) <= 2

\* a readonly wrapper over a reactive wrapper over an original, next to a
\* readonly wrapper directly over the same original
C18_Witness ==
  \E p, q \in proxies :
    /\ isReadonly(p) /\ isReadonly(q)
    /\ p.target \in proxies
    /\ isReactive(p.target)
    /\ q.target \in Originals
    /\ p.target.target = q.target
    /\ readonlyCall(State, p).ret = p

\* C19: getTargetType and markRaw mean the same by skip-flagged, an own skip
\* property: getTargetType returns INVALID for a value exactly when skip is
\* an own property of it, or it is not extensible, or its kind is not
\* recognized; so a value without an own skip property that is extensible is
\* classified by its kind, and a value on which markRaw does nothing because
\* skip is already an own property is INVALID
C19_AsClaimed ==
  \A v \in Objects :
    LET kind == targetTypeMap(toRawType(objs, v))
    IN  /\ getTargetType(objs, v) = INVALID
             <=> (hasOwn(objs, v) \/ ~isExtensible(objs, v) \/ kind = INVALID)
        /\ (~hasOwn(objs, v) /\ isExtensible(objs, v)) => getTargetType(objs, v) = kind
        /\ (hasOwn(objs, v) /\ markRawCall(State, v).st = State)
             => getTargetType(objs, v) = INVALID

=============================================================================
